---- MODULE Spec2Model ----
(***************************************************************************)
(* Model of the background-removal service of src/main.py: the lifespan    *)
(* controller that owns the process-wide model_session, the upload         *)
(* validator, the mode normalizer, the inference call and the two request  *)
(* handlers (GET /health, POST /api/remove-bg).                            *)
(*                                                                         *)
(* The handlers run on one event loop.  remove_background runs atomically  *)
(* from its call up to `await file.read()` and atomically from there to    *)
(* its response (process_image contains no suspension point), so a request *)
(* is two steps: Receive and Process.  The ASGI server is not part of the  *)
(* source; the model lets it call the handlers in every lifecycle state of *)
(* the session except after a failed startup or a process exit.            *)
(***************************************************************************)
EXTENDS Integers, Sequences, FiniteSets

VARIABLES model_session, lifespan_pc, loads, running, slots, last

vars == <<model_session, lifespan_pc, loads, running, slots, last>>

(* ---------------------------- bounds ----------------------------------- *)

\* number of POST requests that can be suspended at `await file.read()`
MaxInFlight == 1

(* ------------------------- configuration ------------------------------- *)

None == "None"

Session == "u2netp"

MAX_FILE_SIZE == 10 * 1024 * 1024

ALLOWED_EXTENSIONS ==
    { "image/jpeg", "image/jpg", "image/png", "image/gif",
      "image/bmp", "image/tiff", "image/webp", "image/x-icon",
      "image/vnd.microsoft.icon", "image/avif", "image/heic",
      "image/heif", "image/x-tga", "image/x-pcx", "image/x-portable-pixmap",
      "image/x-portable-graymap", "image/x-portable-bitmap",
      "image/x-portable-anymap", "image/x-ms-bmp" }

\* the extension list of validate_image, one character per element
ExtensionList ==
    << <<".", "j", "p", "g">>, <<".", "j", "p", "e", "g">>,
       <<".", "p", "n", "g">>, <<".", "g", "i", "f">>,
       <<".", "b", "m", "p">>, <<".", "t", "i", "f", "f">>,
       <<".", "t", "i", "f">>, <<".", "w", "e", "b", "p">>,
       <<".", "i", "c", "o">>, <<".", "a", "v", "i", "f">>,
       <<".", "h", "e", "i", "c">>, <<".", "h", "e", "i", "f">>,
       <<".", "t", "g", "a">>, <<".", "p", "c", "x">>,
       <<".", "p", "p", "m">>, <<".", "p", "g", "m">>,
       <<".", "p", "b", "m">>, <<".", "p", "n", "m">> >>

(* --------------------------- string helpers ---------------------------- *)

\* str.lower() on one character (the characters the inputs use)
LowerChar(c) ==
    CASE c = "A" -> "a"
      [] c = "B" -> "b"
      [] c = "G" -> "g"
      [] c = "J" -> "j"
      [] c = "N" -> "n"
      [] c = "P" -> "p"
      [] OTHER -> c

Lower(s) == [i \in 1..Len(s) |-> LowerChar(s[i])]

EndsWith(s, suffix) ==
    /\ Len(suffix) <= Len(s)
    /\ SubSeq(s, Len(s) - Len(suffix) + 1, Len(s)) = suffix

\* s.rsplit('.', 1)[0]: everything before the last dot, or all of s
RSplitDotHead(s) ==
    LET dots == {i \in 1..Len(s) : s[i] = "."}
    IN  IF dots = {} THEN s
        ELSE LET k == CHOOSE i \in dots : \A j \in dots : j <= i
             IN  SubSeq(s, 1, k - 1)

DigitChars == <<"0", "1", "2", "3", "4", "5", "6", "7", "8", "9">>

RECURSIVE IntToChars(_)
IntToChars(n) ==
    IF n < 10 THEN <<DigitChars[n + 1]>>
    ELSE IntToChars(n \div 10) \o <<DigitChars[(n % 10) + 1]>>

\* f"{n / (1024*1024):.1f}": n in MiB with one decimal, rounded
FormatMB(n) ==
    LET tenths == (2 * 10 * n + 1024 * 1024) \div (2 * 1024 * 1024)
    IN  IntToChars(tenths \div 10) \o <<".">> \o IntToChars(tenths % 10)

(* ------------------------------ inputs --------------------------------- *)

\* declared content types of an upload; None is a part without the header
ContentTypes == {None, "image/jpeg", "text/plain"}

Filenames ==
    { <<"A", ".", "b", ".", "P", "N", "G">>,
      <<"n", "o", "t", "e", "s", ".", "t", "x", "t">> }

Sizes == {0, 1, MAX_FILE_SIZE, MAX_FILE_SIZE + 1}

Uploads == [content_type : ContentTypes, filename : Filenames, size : Sizes]

NoUpload == [content_type |-> None, filename |-> <<>>, size |-> 0]

\* PIL modes: the listed rows of the conversion and an unlisted mode
Modes == {"RGB", "RGBA", "P", "L", "LA", "1", "CMYK", "YCbCr"}

NoMode == "-"

\* what Image.open makes of the bytes: undecodable, or a mode and whether
\* input_image.info has a 'transparency' entry
Images == [decodable : {TRUE}, mode : Modes, transparency : BOOLEAN]
            \cup {[decodable |-> FALSE, mode |-> NoMode, transparency |-> FALSE]}

NoImage == [decodable |-> FALSE, mode |-> NoMode, transparency |-> FALSE]

NoMsg == ""

DecodeMsg == "cannot identify image file"

\* outcome of rembg.remove: NoMsg when it returns, else the exception message
InferOutcomes == {NoMsg, "onnxruntime error"}

(* ---------------------------- responses -------------------------------- *)

NoCall == [called |-> FALSE, session |-> None, mode |-> NoMode]

ErrorResponse(code, text) ==
    [status |-> code, media_type |-> "application/json",
     disposition |-> <<>>, detail |-> text, body |-> <<>>]

InvalidTypeDetail ==
    <<"Invalid file type. Supported formats: JPEG, PNG, GIF, BMP, TIFF, WebP, ICO, AVIF, and more">>

TooLargeDetail ==
    <<"File too large. Maximum size: ">> \o FormatMB(MAX_FILE_SIZE) \o <<"MB">>

EmptyDetail == <<"Empty file uploaded">>

InternalDetail == <<"Internal server error">>

FailedDetail(msg) == <<"Failed to process image: ", msg>>

(* --------------------------- validate_image ---------------------------- *)

\* `file.content_type and ...`: None and "" are falsy
Truthy(ct) == ct # None /\ ct # ""

ExtensionAllowed(filename) ==
    \E i \in 1..Len(ExtensionList) : EndsWith(Lower(filename), ExtensionList[i])

TypeRejected(u) ==
    /\ Truthy(u.content_type)
    /\ u.content_type \notin ALLOWED_EXTENSIONS
    /\ ~ExtensionAllowed(u.filename)

\* validate_image without its last check
validate_image_no_empty_check(u) ==
    IF TypeRejected(u) THEN InvalidTypeDetail
    ELSE IF u.size > MAX_FILE_SIZE THEN TooLargeDetail
    ELSE <<>>

\* validate_image with `>=` for `>` in the size check
validate_image_size_ge(u) ==
    IF TypeRejected(u) THEN InvalidTypeDetail
    ELSE IF u.size >= MAX_FILE_SIZE THEN TooLargeDetail
    ELSE IF u.size = 0 THEN EmptyDetail
    ELSE <<>>

\* <<>> when the upload passes, else the detail of the HTTPException(400)
validate_image(u) ==
    IF TypeRejected(u) THEN InvalidTypeDetail
    ELSE IF u.size > MAX_FILE_SIZE THEN TooLargeDetail
    ELSE IF u.size = 0 THEN EmptyDetail
    ELSE <<>>

\* validate_image of every upload, computed once
ValidateTable == [u \in Uploads |-> validate_image(u)]

(* ---------------------------- process_image ---------------------------- *)

\* the conversion without the look at info['transparency']
NormalizeMode_palette_rgb(mode, transparency) ==
    IF mode \in {"RGB", "RGBA"} THEN mode
    ELSE IF mode = "P" THEN "RGB"
    ELSE IF mode \in {"L", "LA"} THEN (IF mode = "LA" THEN "RGBA" ELSE "RGB")
    ELSE "RGB"

\* the mode conversion before the inference call
NormalizeMode(mode, transparency) ==
    IF mode \in {"RGB", "RGBA"} THEN mode
    ELSE IF mode = "P" THEN (IF transparency THEN "RGBA" ELSE "RGB")
    ELSE IF mode \in {"L", "LA"} THEN (IF mode = "LA" THEN "RGBA" ELSE "RGB")
    ELSE IF mode = "1" THEN "RGB"
    ELSE IF mode = "CMYK" THEN "RGB"
    ELSE "RGB"

\* output_image.save(format="PNG"): the encoding of the cut-out of an image
\* that went into the inference call in mode m
PngEncode(m) == <<"PNG", "RGBA", m>>

\* process_image: the session argument is the global as it is when line 156
\* runs.  Result: raised = NoMsg and the PNG bytes, or the message of the
\* exception that `except Exception` turns into HTTPException(500).
process_image(img, session, outcome) ==
    IF ~img.decodable
    THEN [raised |-> TRUE, detail |-> FailedDetail(DecodeMsg), bytes |-> <<>>,
          infer |-> NoCall, infer_raised |-> NoMsg]
    ELSE LET m == NormalizeMode(img.mode, img.transparency)
             call == [called |-> TRUE, session |-> session, mode |-> m]
         IN  IF outcome # NoMsg
             THEN [raised |-> TRUE, detail |-> FailedDetail(outcome),
                   bytes |-> <<>>, infer |-> call, infer_raised |-> outcome]
             ELSE [raised |-> FALSE, detail |-> <<>>, bytes |-> PngEncode(m),
                   infer |-> call, infer_raised |-> NoMsg]

(* -------------------------- remove_background -------------------------- *)

\* the handler without `except HTTPException: raise`
HandlerExcept_catch_all(kind, code, text) ==
    ErrorResponse(500, InternalDetail)

\* the handler's except clauses: an HTTPException passes through unchanged,
\* any other exception becomes the generic 500
HandlerExcept(kind, code, text) ==
    IF kind = "HTTPException" THEN ErrorResponse(code, text)
    ELSE ErrorResponse(500, InternalDetail)

\* s.split('.')[0] for s.rsplit('.', 1)[0]
SplitDotHead(s) ==
    LET dots == {i \in 1..Len(s) : s[i] = "."}
    IN  IF dots = {} THEN s
        ELSE LET k == CHOOSE i \in dots : \A j \in dots : i <= j
             IN  SubSeq(s, 1, k - 1)

Disposition_first_dot(filename) ==
    <<"attachment; filename=nobg_">> \o SplitDotHead(filename) \o <<".png">>

Disposition(filename) ==
    <<"attachment; filename=nobg_">> \o RSplitDotHead(filename) \o <<".png">>

\* the header of every filename, computed once
DispositionTable == [f \in Filenames |-> Disposition(f)]

StreamingResponse(bytes, filename) ==
    [status |-> 200, media_type |-> "image/png",
     disposition |-> DispositionTable[filename], detail |-> <<>>,
     body |-> bytes]

(* ------------------------------- state --------------------------------- *)

Slots == 1..MaxInFlight

IdleSlot == [pc |-> "idle", upload |-> NoUpload, arrived |-> None]

NoResponse == ErrorResponse(0, <<>>)

\* the outcome of the latest handler step: which handler ran and the response
\* it sent (NoResponse when remove_background suspended in the read); for
\* remove_background also the request it answered: its upload, the value of
\* model_session when the handler was called, what Image.open made of the
\* bytes and the inference call made for it
NoLast ==
    [handler |-> "-", upload |-> NoUpload, arrived |-> None, img |-> NoImage,
     infer |-> NoCall, infer_raised |-> NoMsg, response |-> NoResponse]

Init ==
    /\ model_session = None
    /\ lifespan_pc = "start"
    /\ loads = 0
    /\ running = TRUE
    /\ slots = [s \in Slots |-> IdleSlot]
    /\ last = NoLast

(* ------------------------------ lifespan ------------------------------- *)

\* startup: new_session("u2netp") returns, the generator reaches its yield
Startup ==
    /\ running
    /\ lifespan_pc = "start"
    /\ model_session' = Session
    /\ loads' = loads + 1
    /\ lifespan_pc' = "yielded"
    /\ UNCHANGED <<running, slots, last>>

\* startup: new_session raises, the exception is logged and re-raised
StartupFails ==
    /\ running
    /\ lifespan_pc = "start"
    /\ loads' = loads + 1
    /\ lifespan_pc' = "failed"
    /\ UNCHANGED <<model_session, running, slots, last>>

\* shutdown that leaves the global as it is
Shutdown_keeps_session ==
    /\ running
    /\ lifespan_pc = "yielded"
    /\ lifespan_pc' = "done"
    /\ UNCHANGED <<model_session, loads, running, slots, last>>

\* shutdown: the code after the yield
Shutdown ==
    /\ running
    /\ lifespan_pc = "yielded"
    /\ model_session' = None
    /\ lifespan_pc' = "done"
    /\ UNCHANGED <<loads, running, slots, last>>

\* handle_shutdown: SIGTERM or SIGINT, a log line and sys.exit(0).  The
\* process ends where it is: the code after the yield does not run, and the
\* requests suspended in a read end with the process.
HandleShutdown ==
    /\ running
    /\ running' = FALSE
    /\ slots' = [s \in Slots |-> IdleSlot]
    /\ UNCHANGED <<model_session, lifespan_pc, loads, last>>

\* the handlers are called while the process runs and startup has not failed
Serving == running /\ lifespan_pc # "failed"

(* ------------------------------ handlers ------------------------------- *)

\* health_check that reports a constant
health_check_always_loaded ==
    [status |-> "healthy", model_loaded |-> TRUE]

\* the dict health_check returns
health_check ==
    [status |-> "healthy", model_loaded |-> (model_session # None)]

\* the JSON response FastAPI makes of that dict
JsonBool(b) == IF b THEN "true" ELSE "false"

HealthResponse(content) ==
    [status |-> 200, media_type |-> "application/json", disposition |-> <<>>,
     detail |-> <<>>,
     body |-> <<"status", content.status,
                "model_loaded", JsonBool(content.model_loaded)>>]

HealthCheck ==
    /\ Serving
    /\ last' = [NoLast EXCEPT !.handler = "health_check",
                              !.response = HealthResponse(health_check)]
    /\ UNCHANGED <<model_session, lifespan_pc, loads, running, slots>>

\* remove_background up to `await file.read()`: validate_image either raises
\* (the 400 is the response) or the request suspends in the read.  Idle slots
\* are interchangeable: a request takes the first.
Receive(s) ==
    /\ Serving
    /\ slots[s].pc = "idle"
    /\ \A t \in Slots : t < s => slots[t].pc # "idle"
    /\ \E u \in Uploads :
         LET verdict == ValidateTable[u]
         IN  IF verdict # <<>>
             THEN /\ last' = [handler |-> "remove_background",
                              upload |-> u, arrived |-> model_session,
                              img |-> NoImage, infer |-> NoCall,
                              infer_raised |-> NoMsg,
                              response |-> HandlerExcept("HTTPException", 400, verdict)]
                  /\ UNCHANGED slots
             ELSE /\ slots' = [slots EXCEPT ![s] =
                                 [pc |-> "reading", upload |-> u,
                                  arrived |-> model_session]]
                  /\ last' = [NoLast EXCEPT !.handler = "remove_background"]
    /\ UNCHANGED <<model_session, lifespan_pc, loads, running>>

\* remove_background from the read to the response: process_image with the
\* model_session of this moment, then the StreamingResponse or the exception
Process(s) ==
    /\ Serving
    /\ slots[s].pc = "reading"
    /\ \E img \in Images, outcome \in InferOutcomes :
         LET u == slots[s].upload
             r == process_image(img, model_session, outcome)
         IN  /\ outcome # NoMsg => img.decodable
             /\ last' = [handler |-> "remove_background",
                         upload |-> u, arrived |-> slots[s].arrived,
                         img |-> img, infer |-> r.infer,
                         infer_raised |-> r.infer_raised,
                         response |->
                            IF r.raised
                            THEN HandlerExcept("HTTPException", 500, r.detail)
                            ELSE StreamingResponse(r.bytes, u.filename)]
    /\ slots' = [slots EXCEPT ![s] = IdleSlot]
    /\ UNCHANGED <<model_session, lifespan_pc, loads, running>>

Next ==
    \/ Startup
    \/ StartupFails
    \/ Shutdown
    \/ HandleShutdown
    \/ HealthCheck
    \/ \E s \in Slots : Receive(s)
    \/ \E s \in Slots : Process(s)

Spec == Init /\ [][Next]_vars

(* ------------------------------ claims --------------------------------- *)

\* the latest handler step answered a POST /api/remove-bg request
Answered == last.handler = "remove_background" /\ last.response # NoResponse

TypeRecognized(u) == u.content_type \in ALLOWED_EXTENSIONS

\* the upload is not one the type check turns away: no declared type, a
\* recognized type, or a recognized extension
PassesTypeCheck(u) ==
    \/ u.content_type \in {None, ""}
    \/ TypeRecognized(u)
    \/ ExtensionAllowed(u.filename)

\* C1: a POST request that arrives while model_session is None (before
\* startup or after shutdown) gets a 500-class response and no inference
\* call is made for it.
C1_Unavailable ==
    (Answered /\ last.arrived = None) =>
        (last.response.status >= 500 /\ ~last.infer.called)

\* C2: every GET /health answers 200 {status: "healthy", model_loaded: b}
\* with b true exactly when the lifespan is between a successful startup and
\* shutdown, and the call changes nothing but the response it sends.
C2_Health ==
    [][(last'.handler = "health_check" /\ last' # last) =>
          /\ last'.response.status = 200
          /\ last'.response.body =
                <<"status", "healthy", "model_loaded",
                  IF lifespan_pc = "yielded" THEN "true" ELSE "false">>
          /\ UNCHANGED <<model_session, lifespan_pc, loads, running, slots>>]_vars

C2_Witness ==
    /\ last.handler = "health_check"
    /\ last.response.body = <<"status", "healthy", "model_loaded", "true">>
    /\ model_session = Session

C4_Original ==
    (Answered /\ last.upload.size = 0) =>
        (last.response.status = 400 /\ last.response.detail = <<"Empty file uploaded">>)

\* C4 amended: an upload of length 0 that the type check does not turn away
\* is answered 400 "Empty file uploaded"; one with a declared type outside
\* the allow-list and an extension outside the list is answered 400 with
\* the invalid-type detail.
C4_Empty ==
    (Answered /\ last.upload.size = 0) =>
        /\ last.response.status = 400
        /\ ~last.infer.called
        /\ last.response.detail =
              IF PassesTypeCheck(last.upload)
              THEN <<"Empty file uploaded">>
              ELSE InvalidTypeDetail

C4_Witness ==
    /\ Answered /\ last.upload.size = 0
    /\ last.upload.content_type = "text/plain"
    /\ last.response.detail = <<"Empty file uploaded">>

\* C5 as stated: every upload longer than MAX_FILE_SIZE is answered 400 with
\* the too-large detail naming 10.0MB, and one of exactly MAX_FILE_SIZE
\* bytes is not answered with it.
C5_Original ==
    Answered =>
        /\ last.upload.size > 10485760 =>
              /\ last.response.status = 400
              /\ last.response.detail =
                    <<"File too large. Maximum size: ", "1", "0", ".", "0", "MB">>
        /\ last.upload.size = 10485760 =>
              last.response.detail #
                    <<"File too large. Maximum size: ", "1", "0", ".", "0", "MB">>

\* C5 amended: the same for the uploads the type check does not turn away;
\* the others are answered 400 with the invalid-type detail.
C5_TooLarge ==
    Answered =>
        /\ (last.upload.size > 10485760 /\ PassesTypeCheck(last.upload)) =>
              /\ last.response.status = 400
              /\ last.response.detail =
                    <<"File too large. Maximum size: ", "1", "0", ".", "0", "MB">>
        /\ (last.upload.size > 10485760 /\ ~PassesTypeCheck(last.upload)) =>
              /\ last.response.status = 400
              /\ last.response.detail = InvalidTypeDetail
        /\ last.upload.size = 10485760 =>
              last.response.detail #
                    <<"File too large. Maximum size: ", "1", "0", ".", "0", "MB">>

C5_Witness ==
    /\ Answered /\ last.upload.size = 10485761
    /\ last.upload.content_type = "text/plain"
    /\ last.response.detail =
          <<"File too large. Maximum size: ", "1", "0", ".", "0", "MB">>

\* C6: the validator turns away with the 400 invalid-type detail every
\* upload whose declared type is not recognized (a missing type included)
\* and whose extension is not recognized, and no upload with a recognized
\* type or a recognized extension.
C6_InvalidFormat ==
    /\ \A s \in Slots :
          slots[s].pc = "reading" =>
              (TypeRecognized(slots[s].upload) \/ ExtensionAllowed(slots[s].upload.filename))
    /\ Answered =>
          IF TypeRecognized(last.upload) \/ ExtensionAllowed(last.upload.filename)
          THEN last.response.detail # InvalidTypeDetail
          ELSE last.response.status = 400 /\ last.response.detail = InvalidTypeDetail

\* the stem the claims expect for the filenames of the model
ExpectedStem(filename) ==
    IF filename = <<"A", ".", "b", ".", "P", "N", "G">> THEN <<"A", ".", "b">>
    ELSE <<"n", "o", "t", "e", "s">>

\* C7: an upload with a recognized type or extension, a length in
\* (0, MAX_FILE_SIZE] and decodable bytes, handled while the session is
\* Ready with the inference call returning, is answered 200, image/png,
\* "attachment; filename=nobg_<stem>.png" and the PNG encoding of the
\* inference output.
C7_Success ==
    ( /\ Answered
      /\ TypeRecognized(last.upload) \/ ExtensionAllowed(last.upload.filename)
      /\ last.upload.size > 0 /\ last.upload.size <= 10485760
      /\ last.img.decodable
      /\ last.arrived = Session
      /\ last.infer.called => (last.infer.session = Session /\ last.infer_raised = NoMsg) )
    =>
    /\ last.infer.called
    /\ last.response.status = 200
    /\ last.response.media_type = "image/png"
    /\ last.response.disposition =
          <<"attachment; filename=nobg_">> \o ExpectedStem(last.upload.filename)
              \o <<".png">>
    /\ last.response.body = <<"PNG", "RGBA", last.infer.mode>>
    /\ last.response.detail = <<>>

C7_Witness ==
    /\ Answered /\ last.response.status = 200
    /\ last.upload.filename = <<"A", ".", "b", ".", "P", "N", "G">>
    /\ last.upload.content_type = "text/plain"
    /\ last.arrived = Session /\ last.infer.session = Session

\* the policy table of the mode normalizer
PolicyMode(mode, transparency) ==
    CASE mode = "RGB" -> "RGB"
      [] mode = "RGBA" -> "RGBA"
      [] mode = "P" /\ transparency -> "RGBA"
      [] mode = "P" /\ ~transparency -> "RGB"
      [] mode = "LA" -> "RGBA"
      [] mode = "L" -> "RGB"
      [] mode = "1" -> "RGB"
      [] mode = "CMYK" -> "RGB"
      [] OTHER -> "RGB"

\* C8: the buffer handed to the inference call has the mode the policy
\* table gives for the decoded mode and transparency flag, which is RGB or
\* RGBA, and RGBA for RGBA, LA and paletted-with-transparency sources.
C8_Normalize ==
    last.infer.called =>
        /\ last.infer.mode \in {"RGB", "RGBA"}
        /\ last.infer.mode = PolicyMode(last.img.mode, last.img.transparency)
        /\ ( \/ last.img.mode \in {"RGBA", "LA"}
             \/ (last.img.mode = "P" /\ last.img.transparency) )
              => last.infer.mode = "RGBA"

C8_Witness ==
    /\ last.infer.called
    /\ last.img.mode = "P" /\ last.img.transparency
    /\ last.infer.mode = "RGBA"

\* a step in which remove_background resumes from the read and answers
ProcessStep ==
    /\ running'
    /\ \E s \in Slots :
          /\ slots[s].pc = "reading"
          /\ slots' = [slots EXCEPT ![s] = IdleSlot]

\* C9: when the inference call raises, the request is answered once, with
\* 500 and "Failed to process image: <message>", not with the generic
\* detail, and model_session, the lifespan and the other requests stay as
\* they are.
C9_InferenceFailure ==
    [][(ProcessStep /\ last'.infer_raised # NoMsg) =>
          /\ last'.handler = "remove_background"
          /\ last'.response.status = 500
          /\ last'.response.detail =
                <<"Failed to process image: ", last'.infer_raised>>
          /\ last'.response.detail # <<"Internal server error">>
          /\ last'.response.body = <<>>
          /\ UNCHANGED <<model_session, lifespan_pc, loads, running>>]_vars

C9_Witness ==
    /\ Answered
    /\ last.infer_raised = "onnxruntime error"
    /\ last.response.status = 500
    /\ last.infer.session = Session

\* C10: a request validated while the session was Ready makes its inference
\* call with that session, never with None, also when shutdown ran while
\* the request was suspended in the read.
C10_InFlight ==
    (Answered /\ last.arrived = Session /\ last.infer.called) =>
        last.infer.session = Session

====
